---- MODULE Spec2Model ----
(***************************************************************************)
(* State-machine model of thumbnail.py: the export settings computed by    *)
(* main, the batched multi-row INSERT planner (batch_metadata and          *)
(* get_multi_insert_query), the hand-over to batch_d1 and the upload loop  *)
(* of push_to_r2.                                                          *)
(*                                                                         *)
(* Python strings are TLA+ strings (built with \o, read with Len/SubSeq),  *)
(* Python lists and tuples are sequences, None is the empty sequence and a *)
(* supplied optional value v is <<v>>.                                     *)
(***************************************************************************)
EXTENDS Integers, Sequences, FiniteSets, TLC

VARIABLES
    pc,             \* position of the running function
    caller,         \* "main" or "direct": who called the function under pc
    error,          \* "none", or the name of the exception that propagated
    args,           \* the parsed command line (argparse namespace)
    exportSettings, \* (width, quality, effort) of main
    pathData,       \* list of (source path, thumbnail path) pairs
    columns,        \* batch_metadata: the column tuple
    maxRows,        \* batch_metadata: rows per statement
    i,              \* batch_metadata: 0-based index of the row being handled
    photoData,      \* batch_metadata: parameters accumulated for the open group
    batchedQueries, \* batch_metadata: the statements closed so far
    d1Batch,        \* batch_d1: the plan it was handed ("batch" of the payload)
    d1Status,       \* batch_d1: "idle", "ok" or "failed" (failure is only logged)
    queryCache,     \* lru_cache of get_multi_insert_query: set of [key, value]
    qArgs,          \* a direct call of get_multi_insert_query: its arguments
    qResult,        \* ... and the string it returned
    r2i,            \* push_to_r2: 0-based index of the next pair
    attempted,      \* push_to_r2: object keys whose upload was attempted, in order
    r2Errors        \* push_to_r2: number of ClientErrors logged

vars == <<pc, caller, error, args, exportSettings, pathData, columns, maxRows, i,
          photoData, batchedQueries, d1Batch, d1Status, queryCache, qArgs, qResult,
          r2i, attempted, r2Errors>>

---------------------------------------------------------------------------
(* Program constants *)

DEFAULT_WIDTH == 1000
DEFAULT_QUALITY == 75
DEFAULT_EFFORT == 4
BATCH_PARAM_LIMIT == 100

(* Bounds of the model *)

MaxRows == 34        \* longest pathData given to batch_metadata
MaxShift == 2        \* directory orders tried per length (rotations 0..MaxShift)
MaxPairs == 3        \* longest pathData given to push_to_r2
MaxQueryRows == 12   \* largest rowCount of a direct get_multi_insert_query call

None == <<>>
Some(v) == <<v>>

Max(a, b) == IF a > b THEN a ELSE b
Min(a, b) == IF a < b THEN a ELSE b

---------------------------------------------------------------------------
(* Python string helpers *)

\* sep.join(parts)
RECURSIVE Join(_, _)
Join(sep, parts) ==
    IF parts = <<>> THEN ""
    ELSE IF Len(parts) = 1 THEN parts[1]
    ELSE parts[1] \o sep \o Join(sep, Tail(parts))

\* [x for _ in range(n)]; range(n) is empty for n <= 0
RECURSIVE Repeat(_, _)
Repeat(x, n) == IF n <= 0 THEN <<>> ELSE <<x>> \o Repeat(x, n - 1)

\* s.rsplit(".")[0]: with no maxsplit every "." splits, so the first piece is
\* the text before the first "." (all of s when it holds none)
RECURSIVE BeforeFirstDot(_, _)
BeforeFirstDot(s, k) ==
    IF k > Len(s) THEN s
    ELSE IF SubSeq(s, k, k) = "." THEN SubSeq(s, 1, k - 1)
    ELSE BeforeFirstDot(s, k + 1)

---------------------------------------------------------------------------
(* main: export settings *)

\* Python truthiness of an optional int: None and 0 are falsy
Falsy(opt) == opt = None \/ opt[1] = 0

WidthOf(a) == IF Falsy(a.width) THEN DEFAULT_WIDTH ELSE Max(64, a.width[1])
QualityOf(a) == IF Falsy(a.quality) THEN DEFAULT_QUALITY ELSE Max(0, Min(100, a.quality[1]))
EffortOf(a) == IF Falsy(a.effort) THEN DEFAULT_EFFORT ELSE Max(0, Min(9, a.effort[1]))
ExportSettingsOf(a) == <<WidthOf(a), QualityOf(a), EffortOf(a)>>

---------------------------------------------------------------------------
(* main: the directory scan *)

SourceDir == "photos"

\* the k-th file of the directory: names with one suffix, two suffixes, none
FileName(k) ==
    IF k % 3 = 1 THEN "img" \o ToString(k) \o ".jpg"
    ELSE IF k % 3 = 2 THEN "img" \o ToString(k) \o ".raw.png"
    ELSE "img" \o ToString(k)

FilePath(k) == [parent |-> SourceDir, name |-> FileName(k)]

ThumbPathOf(filePath) ==
    [parent |-> filePath.parent \o "/thumbnails",
     name   |-> Join(".", <<BeforeFirstDot(filePath.name, 1) \o "-thumb", "avif">>)]

\* iterdir() of a directory of n files, in the order that starts at file shift+1
ScanDir(n, shift) ==
    [k \in 1..n |-> LET f == FilePath(((k - 1 + shift) % n) + 1)
                    IN  <<f, ThumbPathOf(f)>>]

PathDataInputs(maxLen) ==
    {<<>>} \cup {ScanDir(n, s) : n \in 1..maxLen, s \in 0..MaxShift}

---------------------------------------------------------------------------
(* get_multi_insert_query *)

PhotoColumns ==
    <<"filename", "thumbnail", "camera_model", "lens", "date_taken",
      "exposure_time", "focal_length", "f_stop", "iso">>

get_multi_insert_query(tableName, cols, rowCount) ==
    LET insertStr == "INSERT INTO " \o tableName \o " (" \o Join(", ", cols) \o ") VALUES "
        group     == "(" \o Join(", ", Repeat("?", Len(cols))) \o ")"
        paramStr  == Join(",\n", Repeat(group, rowCount))
    IN  insertStr \o paramStr \o " ON CONFLICT DO NOTHING;"

\* @lru_cache: a hit returns the stored string, a miss computes and stores it
CacheKey(tableName, cols, rowCount) == <<tableName, cols, rowCount>>
CacheHit(cache, key) == \E e \in cache : e.key = key
CachedQuery(cache, tableName, cols, rowCount) ==
    LET key == CacheKey(tableName, cols, rowCount)
    IN  IF CacheHit(cache, key)
        THEN (CHOOSE e \in cache : e.key = key).value
        ELSE get_multi_insert_query(tableName, cols, rowCount)
CacheAfter(cache, tableName, cols, rowCount) ==
    LET key == CacheKey(tableName, cols, rowCount)
    IN  IF CacheHit(cache, key) THEN cache
        ELSE cache \cup {[key |-> key, value |-> get_multi_insert_query(tableName, cols, rowCount)]}

---------------------------------------------------------------------------
(* batch_metadata *)

TableName == "photo"

MaxRowsCeil(limit, cols) == (limit + Len(cols) - 1) \div Len(cols)
MaxRowsOf(limit, cols) == limit \div Len(cols)

RowOf(paths) ==
    <<paths[1].name, paths[2].name, "OLYMPUS XA2", "NULL", "NULL", "NULL", "NULL", "NULL", "NULL">>

CloseCondNoFinal(idx, n, cap) == (idx + 1) % cap = 0
CloseCondOffByOne(idx, n, cap) == (idx % cap = 0) \/ (idx = n - 1)
CloseCond(idx, n, cap) == ((idx + 1) % cap = 0) \/ (idx = n - 1)

RowCountArgFull(idx, cap) == cap
RowCountArg(idx, cap) == IF (idx + 1) % cap = 0 THEN cap ELSE (idx + 1) % cap

FinalPlanFlush(queries, pending) ==
    Append(queries, [sql    |-> get_multi_insert_query(TableName, PhotoColumns, Len(pending) \div 9),
                     params |-> pending])
FinalPlan(queries, pending) == queries

---------------------------------------------------------------------------
(* Initial values of the parts a specification does not start in *)

NoArgs == [width |-> None, quality |-> None, effort |-> None,
           test |-> FALSE, offlineOnly |-> FALSE]

BatchIdle ==
    /\ maxRows = 0
    /\ i = 0
    /\ photoData = <<>>
    /\ batchedQueries = <<>>
    /\ d1Batch = <<>>
    /\ d1Status = "idle"
    /\ queryCache = {}

QueryIdle ==
    /\ qArgs = [tableName |-> TableName, columns |-> PhotoColumns, rowCount |-> 1]
    /\ qResult = ""

R2Idle ==
    /\ r2i = 0
    /\ attempted = <<>>
    /\ r2Errors = 0

---------------------------------------------------------------------------
(* main, from the scan result to the upload calls.  Thumbnail generation      *)
(* (lines 97-103) writes image files only and is left out.                    *)

\* if not pathData: return 0
MainExitEarly ==
    /\ pc = "main"
    /\ pathData = <<>>
    /\ pc' = "exit"
    /\ UNCHANGED <<caller, error, args, exportSettings, pathData, columns, maxRows, i,
                   photoData, batchedQueries, d1Batch, d1Status, queryCache, qArgs,
                   qResult, r2i, attempted, r2Errors>>

\* if args.test: return 0
MainTestExit ==
    /\ pc = "main"
    /\ pathData # <<>>
    /\ args.test
    /\ pc' = "exit"
    /\ UNCHANGED <<caller, error, args, exportSettings, pathData, columns, maxRows, i,
                   photoData, batchedQueries, d1Batch, d1Status, queryCache, qArgs,
                   qResult, r2i, attempted, r2Errors>>

\* if not args.offlineOnly: ... else: "File uploads DISABLED"
MainSkipUpload ==
    /\ pc = "main"
    /\ pathData # <<>>
    /\ ~args.test
    /\ args.offlineOnly
    /\ pc' = "exit"
    /\ UNCHANGED <<caller, error, args, exportSettings, pathData, columns, maxRows, i,
                   photoData, batchedQueries, d1Batch, d1Status, queryCache, qArgs,
                   qResult, r2i, attempted, r2Errors>>

\* batch_metadata(pathData)
MainCallBatch ==
    /\ pc = "main"
    /\ pathData # <<>>
    /\ ~args.test
    /\ ~args.offlineOnly
    /\ pc' = "batch_metadata"
    /\ UNCHANGED <<caller, error, args, exportSettings, pathData, columns, maxRows, i,
                   photoData, batchedQueries, d1Batch, d1Status, queryCache, qArgs,
                   qResult, r2i, attempted, r2Errors>>

---------------------------------------------------------------------------
(* batch_metadata, one action per step of its body *)

\* lines 176-180: maxRows, photoData = [], batchedQueries = []
BatchEnter ==
    /\ pc = "batch_metadata"
    /\ maxRows' = MaxRowsOf(BATCH_PARAM_LIMIT, columns)
    /\ photoData' = <<>>
    /\ batchedQueries' = <<>>
    /\ i' = 0
    /\ pc' = "for"
    /\ UNCHANGED <<caller, error, args, exportSettings, pathData, columns, d1Batch,
                   d1Status, queryCache, qArgs, qResult, r2i, attempted, r2Errors>>

\* lines 181-183: the next row's values are appended to photoData
BatchExtend ==
    /\ pc = "for"
    /\ i < Len(pathData)
    /\ photoData' = photoData \o RowOf(pathData[i + 1])
    /\ pc' = "if"
    /\ UNCHANGED <<caller, error, args, exportSettings, pathData, columns, maxRows, i,
                   batchedQueries, d1Batch, d1Status, queryCache, qArgs, qResult, r2i,
                   attempted, r2Errors>>

\* lines 185-188: (i+1) % maxRows raises ZeroDivisionError when maxRows is 0;
\* otherwise the group is closed when full or at the last row
BatchCheck ==
    /\ pc = "if"
    /\ IF maxRows = 0
       THEN /\ error' = "ZeroDivisionError"
            /\ pc' = "raised"
            /\ UNCHANGED <<i, photoData, batchedQueries, queryCache>>
       ELSE /\ IF CloseCond(i, Len(pathData), maxRows)
               THEN LET rowCount == RowCountArg(i, maxRows)
                        query == CachedQuery(queryCache, TableName, columns, rowCount)
                    IN  /\ batchedQueries' =
                              Append(batchedQueries, [sql |-> query, params |-> photoData])
                        /\ queryCache' = CacheAfter(queryCache, TableName, columns, rowCount)
                        /\ photoData' = <<>>
               ELSE UNCHANGED <<photoData, batchedQueries, queryCache>>
            /\ i' = i + 1
            /\ pc' = "for"
            /\ UNCHANGED error
    /\ UNCHANGED <<caller, args, exportSettings, pathData, columns, maxRows, d1Batch,
                   d1Status, qArgs, qResult, r2i, attempted, r2Errors>>

\* line 189: batch_d1(batchedQueries)
BatchReturn ==
    /\ pc = "for"
    /\ i = Len(pathData)
    /\ d1Batch' = FinalPlan(batchedQueries, photoData)
    /\ pc' = "batch_d1"
    /\ UNCHANGED <<caller, error, args, exportSettings, pathData, columns, maxRows, i,
                   photoData, batchedQueries, d1Status, queryCache, qArgs, qResult, r2i,
                   attempted, r2Errors>>

\* batch_d1: the POST succeeds, or fails with a RequestException that is logged;
\* either way it returns, to main (which goes on to push_to_r2) or to the caller
BatchD1 ==
    /\ pc = "batch_d1"
    /\ \E outcome \in {"ok", "failed"} : d1Status' = outcome
    /\ pc' = IF caller = "main" THEN "push_to_r2" ELSE "done"
    /\ UNCHANGED <<caller, error, args, exportSettings, pathData, columns, maxRows, i,
                   photoData, batchedQueries, d1Batch, queryCache, qArgs, qResult, r2i,
                   attempted, r2Errors>>

---------------------------------------------------------------------------
(* Spec: main after the scan, or a direct call of batch_metadata, on every  *)
(* scanned directory of up to MaxRows files                                 *)

Init ==
    /\ pc \in {"main", "batch_metadata"}
    /\ caller = (IF pc = "main" THEN "main" ELSE "direct")
    /\ error = "none"
    /\ args \in {[NoArgs EXCEPT !.test = t, !.offlineOnly = o] :
                    t \in (IF pc = "main" THEN BOOLEAN ELSE {FALSE}),
                    o \in (IF pc = "main" THEN BOOLEAN ELSE {FALSE})}
    /\ exportSettings = ExportSettingsOf(args)
    /\ pathData \in PathDataInputs(MaxRows)
    /\ columns = PhotoColumns
    /\ BatchIdle
    /\ QueryIdle
    /\ R2Idle

Next ==
    \/ MainExitEarly
    \/ MainTestExit
    \/ MainSkipUpload
    \/ MainCallBatch
    \/ BatchEnter
    \/ BatchExtend
    \/ BatchCheck
    \/ BatchReturn
    \/ BatchD1

Spec == Init /\ [][Next]_vars

---------------------------------------------------------------------------
(* Reading a plan *)

\* the params lists of a plan, concatenated in plan order
RECURSIVE ConcatParams(_)
ConcatParams(plan) ==
    IF plan = <<>> THEN <<>> ELSE Head(plan).params \o ConcatParams(Tail(plan))

\* the rows of a path-pair sequence, flattened in order
RECURSIVE FlattenRows(_)
FlattenRows(rows) ==
    IF rows = <<>> THEN <<>> ELSE RowOf(Head(rows)) \o FlattenRows(Tail(rows))

\* occurrences of the character c in the string s
CountChar(s, c) == Cardinality({k \in 1..Len(s) : SubSeq(s, k, k) = c})

EndsWith(s, suffix) ==
    /\ Len(s) >= Len(suffix)
    /\ SubSeq(s, Len(s) - Len(suffix) + 1, Len(s)) = suffix

\* the parenthesized groups after VALUES: every "(" but the column list's
GroupCount(sql) == CountChar(sql, "(") - 1
PlaceholderCount(sql) == CountChar(sql, "?")

CeilDiv(a, b) == (a + b - 1) \div b

Capacity == BATCH_PARAM_LIMIT \div Len(columns)
RowCount == Len(pathData)

InLoop == pc \in {"for", "if"}
Returned == pc \in {"batch_d1", "done", "push_to_r2"}
\* rows whose values have been appended to photoData so far
Handled == IF pc = "if" THEN i + 1 ELSE i
\* rows held by the j-th statement of the plan handed to batch_d1
RowsIn(j) == Len(d1Batch[j].params) \div Len(columns)
PlanSizes == [j \in 1..Len(d1Batch) |-> RowsIn(j)]

---------------------------------------------------------------------------
(* Claims on batch_metadata, checked under Spec *)

\* C1: the params lists of the emitted statements, concatenated in plan order,
\* are exactly the input rows flattened in their original order (no row is
\* dropped, duplicated or reordered); during the loop the closed statements
\* followed by the open group are the rows handled so far.
C1_ParamsAreRowsInOrder ==
    /\ InLoop => ConcatParams(batchedQueries) \o photoData
                    = FlattenRows(SubSeq(pathData, 1, Handled))
    /\ Returned => ConcatParams(d1Batch) = FlattenRows(pathData)

C1_Witness ==
    /\ pc = "done"
    /\ RowCount = 25
    /\ Len(d1Batch) = 3
    /\ pathData[1][1].name = "img3"

\* C2: the plan holds ceil(n / capacity) statements, capacity being
\* floor(batchLimit / columnCount), which is 11 for the photo columns.
C2_StatementCount ==
    Returned =>
        /\ maxRows = Capacity
        /\ Capacity = 11
        /\ Len(d1Batch) = CeilDiv(RowCount, Capacity)

C2_Witness ==
    /\ pc = "done"
    /\ RowCount = 23
    /\ Len(d1Batch) = 3

\* C3: at every point of the loop and for every emitted statement, the number
\* of bound parameters is at most the batch limit and a multiple of the
\* column count.
ParamsWithinLimit(params) ==
    /\ Len(params) <= BATCH_PARAM_LIMIT
    /\ Len(params) % Len(columns) = 0

C3_ParamsWithinLimit ==
    /\ ParamsWithinLimit(photoData)
    /\ \A k \in DOMAIN batchedQueries : ParamsWithinLimit(batchedQueries[k].params)
    /\ \A k \in DOMAIN d1Batch : ParamsWithinLimit(d1Batch[k].params)

C3_Witness ==
    /\ pc = "if"
    /\ Len(photoData) = 99
    /\ Len(batchedQueries) = 1
    /\ Len(batchedQueries[1].params) = 99

\* C4: every statement's SQL has as many placeholder groups as rows held by
\* its params (len(params) = columnCount * groups, one "?" per parameter) and
\* ends with "ON CONFLICT DO NOTHING;".
StatementShape(stmt) ==
    /\ Len(stmt.params) = Len(columns) * GroupCount(stmt.sql)
    /\ PlaceholderCount(stmt.sql) = Len(stmt.params)
    /\ EndsWith(stmt.sql, "ON CONFLICT DO NOTHING;")

C4_GroupsMatchRows ==
    /\ pc = "for" => \A k \in DOMAIN batchedQueries : StatementShape(batchedQueries[k])
    /\ Returned => \A k \in DOMAIN d1Batch : StatementShape(d1Batch[k])

C4_Witness ==
    /\ pc = "done"
    /\ RowCount = 14
    /\ GroupCount(d1Batch[1].sql) = 11
    /\ GroupCount(d1Batch[2].sql) = 3

\* C5: for n >= 1 rows every statement but the last holds capacity rows and
\* the last holds n - capacity*(k-1) rows, between 1 and capacity; 25 rows
\* give sizes 11, 11, 3 and an exact multiple of capacity gives no extra
\* statement.
C5_GroupSizes ==
    (Returned /\ RowCount >= 1) =>
        LET k == Len(d1Batch)
        IN  /\ k >= 1
            /\ \A j \in 1..(k - 1) : Len(d1Batch[j].params) = Len(columns) * Capacity
            /\ Len(d1Batch[k].params) = Len(columns) * (RowCount - Capacity * (k - 1))
            /\ RowsIn(k) >= 1
            /\ RowsIn(k) <= Capacity
            /\ RowCount = 25 => PlanSizes = <<11, 11, 3>>
            /\ RowCount = 11 => PlanSizes = <<11>>
            /\ RowCount % Capacity = 0 => k = RowCount \div Capacity

C5_Witness ==
    /\ pc = "done"
    /\ RowCount = 22
    /\ PlanSizes = <<11, 11>>

\* C8: an empty row sequence gives an empty plan and no error.
C8_EmptyInputEmptyPlan ==
    pathData = <<>> =>
        /\ error = "none"
        /\ pc # "raised"
        /\ batchedQueries = <<>>
        /\ Returned => d1Batch = <<>>

C8_Witness ==
    /\ pc = "done"
    /\ pathData = <<>>
    /\ d1Batch = <<>>
    /\ d1Status = "ok"

---------------------------------------------------------------------------
(* SpecSettings: main from the parsed arguments to the scan result *)

WidthArgs == {None} \cup {Some(v) : v \in {-5, 0, 1, 63, 64, 65, 1000, 4000}}
QualityArgs == {None} \cup {Some(v) : v \in {-1, 0, 1, 75, 100, 101}}
EffortArgs == {None} \cup {Some(v) : v \in {-1, 0, 1, 4, 9, 10}}

\* lines 60-64: exportSettings = (width, quality, effort)
MainSettings ==
    /\ pc = "args"
    /\ exportSettings' = ExportSettingsOf(args)
    /\ pc' = "scan"
    /\ UNCHANGED <<caller, error, args, pathData, columns, maxRows, i, photoData,
                   batchedQueries, d1Batch, d1Status, queryCache, qArgs, qResult, r2i,
                   attempted, r2Errors>>

\* lines 69-87: pathData is one pair per file of the directory (or the one
\* pair of a single file), each thumbnail path derived from its source path
MainScan ==
    /\ pc = "scan"
    /\ \E found \in PathDataInputs(MaxPairs) : pathData' = found
    /\ pc' = "main"
    /\ UNCHANGED <<caller, error, args, exportSettings, columns, maxRows, i, photoData,
                   batchedQueries, d1Batch, d1Status, queryCache, qArgs, qResult, r2i,
                   attempted, r2Errors>>

InitSettings ==
    /\ pc = "args"
    /\ caller = "main"
    /\ error = "none"
    /\ args \in {[NoArgs EXCEPT !.width = w, !.quality = q, !.effort = e] :
                    w \in WidthArgs, q \in QualityArgs, e \in EffortArgs}
    /\ exportSettings = <<>>
    /\ pathData = <<>>
    /\ columns = PhotoColumns
    /\ BatchIdle
    /\ QueryIdle
    /\ R2Idle

NextSettings == MainSettings \/ MainScan

SpecSettings == InitSettings /\ [][NextSettings]_vars

\* the settings the configuration surface describes: the default only when
\* the flag is absent, otherwise the supplied integer floored or clamped
ClaimedFloor(opt, default, lo) ==
    IF opt = None THEN default ELSE Max(lo, opt[1])
ClaimedClamp(opt, default, lo, hi) ==
    IF opt = None THEN default ELSE Max(lo, Min(hi, opt[1]))

\* C10: the effective settings are the defaults (1000, 75, 4) only when the
\* flag is not supplied; otherwise the supplied integer with width floored at
\* 64, quality clamped into 0..100 and effort into 0..9, for every supplied
\* integer, 0 included.
C10_SettingsAsDocumented ==
    pc \in {"scan", "main"} =>
        /\ exportSettings[1] = ClaimedFloor(args.width, DEFAULT_WIDTH, 64)
        /\ exportSettings[2] = ClaimedClamp(args.quality, DEFAULT_QUALITY, 0, 100)
        /\ exportSettings[3] = ClaimedClamp(args.effort, DEFAULT_EFFORT, 0, 9)

---------------------------------------------------------------------------
(* SpecQuery: one direct call of get_multi_insert_query *)

QueryColumnSets == {<<>>, <<"name">>, <<"name", "description">>, PhotoColumns}

\* lines 163-173: the body holds no check and no raise; it returns the string
QueryCall ==
    /\ pc = "query"
    /\ qResult' = CachedQuery(queryCache, qArgs.tableName, qArgs.columns, qArgs.rowCount)
    /\ queryCache' = CacheAfter(queryCache, qArgs.tableName, qArgs.columns, qArgs.rowCount)
    /\ pc' = "returned"
    /\ UNCHANGED <<caller, error, args, exportSettings, pathData, columns, maxRows, i,
                   photoData, batchedQueries, d1Batch, d1Status, qArgs, r2i, attempted,
                   r2Errors>>

InitQuery ==
    /\ pc = "query"
    /\ caller = "direct"
    /\ error = "none"
    /\ args = NoArgs
    /\ exportSettings = ExportSettingsOf(args)
    /\ pathData = <<>>
    /\ columns = PhotoColumns
    /\ BatchIdle
    /\ qArgs \in [tableName : {"photo", "collection"},
                  columns   : QueryColumnSets,
                  rowCount  : (-2)..MaxQueryRows]
    /\ qResult = ""
    /\ R2Idle

NextQuery == QueryCall

SpecQuery == InitQuery /\ [][NextQuery]_vars

MalformedQueryArgs == qArgs.rowCount < 1 \/ qArgs.columns = <<>>

\* C6: called with rowCount < 1 or an empty column set, the template builder
\* fails with InvalidArgument; it never returns a statement.
C6_MalformedArgsRejected ==
    (pc # "query" /\ MalformedQueryArgs) =>
        /\ pc = "raised"
        /\ error = "InvalidArgument"
        /\ qResult = ""

---------------------------------------------------------------------------
(* SpecWide: batch_metadata called directly, with the column tuple of line  *)
(* 177 either as written or replaced by one wider than the batch limit.     *)
(* The program itself always runs with the nine photo columns.              *)

NamedColumns(n) == [k \in 1..n |-> "c" \o ToString(k)]

WideColumnSets == {PhotoColumns, NamedColumns(BATCH_PARAM_LIMIT + 1)}

InitWide ==
    /\ pc = "batch_metadata"
    /\ caller = "direct"
    /\ error = "none"
    /\ args = NoArgs
    /\ exportSettings = ExportSettingsOf(args)
    /\ pathData \in PathDataInputs(MaxRows)
    /\ columns \in WideColumnSets
    /\ BatchIdle
    /\ QueryIdle
    /\ R2Idle

NextWide == BatchEnter \/ BatchExtend \/ BatchCheck \/ BatchReturn \/ BatchD1

SpecWide == InitWide /\ [][NextWide]_vars

---------------------------------------------------------------------------
(* SpecR2: push_to_r2 *)

\* lines 152-154: the client is created
R2Connect ==
    /\ pc = "push_to_r2"
    /\ r2i' = 0
    /\ pc' = "r2for"
    /\ UNCHANGED <<caller, error, args, exportSettings, pathData, columns, maxRows, i,
                   photoData, batchedQueries, d1Batch, d1Status, queryCache, qArgs,
                   qResult, attempted, r2Errors>>

\* lines 155-160: one pair.  Both uploads sit in one try block: a ClientError
\* of the first upload jumps to the handler, past the second upload.
R2Pair ==
    /\ pc = "r2for"
    /\ r2i < Len(pathData)
    /\ \E srcOutcome \in {"ok", "ClientError"}, thumbOutcome \in {"ok", "ClientError"} :
          LET src   == pathData[r2i + 1][1]
              thumb == pathData[r2i + 1][2]
          IN  IF srcOutcome = "ok"
              THEN /\ attempted' = attempted \o <<src.name, thumb.name>>
                   /\ r2Errors' = IF thumbOutcome = "ok" THEN r2Errors ELSE r2Errors + 1
              ELSE /\ attempted' = Append(attempted, src.name)
                   /\ r2Errors' = r2Errors + 1
    /\ r2i' = r2i + 1
    /\ UNCHANGED <<pc, caller, error, args, exportSettings, pathData, columns, maxRows, i,
                   photoData, batchedQueries, d1Batch, d1Status, queryCache, qArgs,
                   qResult>>

\* line 161: the loop is over
R2Done ==
    /\ pc = "r2for"
    /\ r2i = Len(pathData)
    /\ pc' = "done"
    /\ UNCHANGED <<caller, error, args, exportSettings, pathData, columns, maxRows, i,
                   photoData, batchedQueries, d1Batch, d1Status, queryCache, qArgs,
                   qResult, r2i, attempted, r2Errors>>

InitR2 ==
    /\ pc = "push_to_r2"
    /\ caller = "direct"
    /\ error = "none"
    /\ args = NoArgs
    /\ exportSettings = ExportSettingsOf(args)
    /\ pathData \in PathDataInputs(MaxPairs)
    /\ columns = PhotoColumns
    /\ BatchIdle
    /\ QueryIdle
    /\ R2Idle

NextR2 == R2Connect \/ R2Pair \/ R2Done

SpecR2 == InitR2 /\ [][NextR2]_vars

WasAttempted(name) == \E k \in DOMAIN attempted : attempted[k] = name

\* C9: whatever uploads fail, by the end of push_to_r2 the upload of every
\* file of every pair has been attempted, the thumbnail of a pair whose
\* original failed included.
C9_EveryFileAttempted ==
    pc = "done" =>
        \A k \in DOMAIN pathData :
            /\ WasAttempted(pathData[k][1].name)
            /\ WasAttempted(pathData[k][2].name)

====
